---- MODULE Spec2Model ----
(***************************************************************************)
(* ExtremalValueNode (ArgMaxNode / ArgMinNode) of the ELL nodes library:   *)
(* interpreted evaluation (Compute), code generation (Compile, CompileLoop,*)
(* CompileExpanded) together with the execution of the emitted function,   *)
(* serialization (WriteToArchive / ReadFromArchive) and graph copy (Copy). *)
(***************************************************************************)
EXTENDS Integers, Sequences, FiniteSets, TLC

\* ------------------------------------------------------------------------
\* Bounds of the model
\* ------------------------------------------------------------------------
MaxLen == 3

MaxVal == 2

MaxPortSize == 2

MaxCopies == 2

Values == 0..MaxVal

Vectors == UNION {[1..n -> Values] : n \in 0..MaxLen}

Slots == {"orig", "restored"}

\* ------------------------------------------------------------------------
\* Ports and port elements
\* ------------------------------------------------------------------------
inputPortName == "input"

valPortName == "val"

argValPortName == "argVal"

\* PortElements {}: no upstream elements at all.
EmptyElements == [port |-> "none", full |-> FALSE]

\* The upstream output port of the model the nodes are built in, and its
\* image in the model a ModelTransformer builds.
UpstreamPort == "upstream"

\* PortElements a caller can pass to the constructor: elements of the
\* upstream port, either the whole port output or a composed view of it.
InputElements == {[port |-> UpstreamPort, full |-> f] : f \in BOOLEAN}

VARIABLES
    V,              \* contents of the upstream output buffer
    nodes,          \* slot -> node record, or NoNode
    crashed,        \* the process ran into undefined behaviour and aborted
    archive,        \* the archive: sequence of [name, value] entries
    archiveWriter,  \* slot whose WriteToArchive filled the archive
    writtenKeys,    \* field names used by the last WriteToArchive
    readKeys,       \* field names used by the last ReadFromArchive
    readFrom,       \* whose archive the restored node was read from
    newModel,       \* nodes the transformer added to the new model
    outputMap,      \* the transformer's output-port mapping
    copied,         \* slots of the nodes Copy was called on, in call order
    unrollLoops,    \* compiler option
    code,           \* instructions emitted into the function builder
    strategy,       \* strategies entered by Compile, in order
    compileStatus,  \* "none", "ok", "error", "crashed"
    compiled,       \* slot of the compiled node
    pc,             \* position of the emitted function
    loopVar,        \* counter of the emitted counted loop
    bestVal,        \* emitted local variable bestVal
    bestIndex,      \* emitted local variable bestArgVal
    outVal,         \* storage of the val output port
    outArgVal,      \* storage of the argVal output port
    trace           \* run-time events of the emitted function, in order

graphVars == <<V, nodes, crashed, archive, archiveWriter, writtenKeys, readKeys,
               readFrom, newModel, outputMap, copied>>

compileVars == <<unrollLoops, code, strategy, compileStatus, compiled>>

runVars == <<pc, loopVar, bestVal, bestIndex, outVal, outArgVal, trace>>

vars == <<graphVars, compileVars, runVars>>

NoNode == [kind |-> "none"]

Exists(slot) == nodes[slot].kind # "none"

IsMaxNode(n) == n.kind = "ArgMax"

\* InputPort::Size of a port bound to the given elements.
Size(elements) == IF elements.port = "none" THEN 0 ELSE Len(V)

\* InputPort::GetValue: the values of the referenced upstream elements. The new
\* model's image of the upstream port carries the same value stream.
GetValue(elements) == IF elements.port = "none" THEN <<>> ELSE V

\* ------------------------------------------------------------------------
\* Construction
\* ------------------------------------------------------------------------
NodeId(slot) == IF slot = "orig" THEN 1 ELSE 2

NewNode(isMax, id, elements) ==
    [kind |-> IF isMax THEN "ArgMax" ELSE "ArgMin",
     id |-> id,
     input |-> elements,
     valSize |-> 1,
     argValSize |-> 1,
     val |-> <<>>,
     argVal |-> <<>>]

DefaultConstructed(isMax, id) == NewNode(isMax, id, EmptyElements)

Constructed(isMax, id, elements) == NewNode(isMax, id, elements)

\* The graph is built before the compile pass: no node is constructed once
\* Compile has run.
DefaultConstructor(slot) ==
    /\ ~crashed
    /\ ~Exists(slot)
    /\ compileStatus = "none"
    /\ \E isMax \in BOOLEAN :
          nodes' = [nodes EXCEPT ![slot] = DefaultConstructed(isMax, NodeId(slot))]
    /\ UNCHANGED <<V, crashed, archive, archiveWriter, writtenKeys, readKeys,
                   readFrom, newModel, outputMap, copied>>
    /\ UNCHANGED <<compileVars, runVars>>

Constructor(slot) ==
    /\ ~crashed
    /\ ~Exists(slot)
    /\ compileStatus = "none"
    /\ slot = "orig"
    /\ \E isMax \in BOOLEAN, elements \in InputElements :
          nodes' = [nodes EXCEPT ![slot] = Constructed(isMax, NodeId(slot), elements)]
    /\ UNCHANGED <<V, crashed, archive, archiveWriter, writtenKeys, readKeys,
                   readFrom, newModel, outputMap, copied>>
    /\ UNCHANGED <<compileVars, runVars>>

\* ------------------------------------------------------------------------
\* Compute
\* ------------------------------------------------------------------------
RECURSIVE MaxElementFrom(_, _, _)
MaxElementFrom(s, largest, first) ==
    IF first > Len(s) THEN largest
    ELSE MaxElementFrom(s, IF s[largest] < s[first] THEN first ELSE largest, first + 1)

\* std::max_element(begin, end) as a 1-based position; Len(s) + 1 is end().
MaxElement(s) == IF Len(s) = 0 THEN Len(s) + 1 ELSE MaxElementFrom(s, 1, 2)

\* Variant of MinElementFrom that moves on to an equal element.
RECURSIVE MinElementFromLast(_, _, _)
MinElementFromLast(s, smallest, first) ==
    IF first > Len(s) THEN smallest
    ELSE MinElementFromLast(s, IF s[first] <= s[smallest] THEN first ELSE smallest,
                            first + 1)

RECURSIVE MinElementFrom(_, _, _)
MinElementFrom(s, smallest, first) ==
    IF first > Len(s) THEN smallest
    ELSE MinElementFrom(s, IF s[first] < s[smallest] THEN first ELSE smallest, first + 1)

MinElement(s) == IF Len(s) = 0 THEN Len(s) + 1 ELSE MinElementFrom(s, 1, 2)

ExtremalElement(isMax, s) == IF isMax THEN MaxElement(s) ELSE MinElement(s)

\* The (val, argVal) pair Compute stores for input values s (s non-empty).
ComputeResult(isMax, s) ==
    LET result == ExtremalElement(isMax, s)
    IN  [val |-> s[result], argVal |-> result - 1]

Compute(slot) ==
    /\ ~crashed
    /\ Exists(slot)
    /\ LET n == nodes[slot]
           inputValues == GetValue(n.input)
           result == ExtremalElement(IsMaxNode(n), inputValues)
       IN  IF result > Len(inputValues)
           THEN \* *result dereferences end(): undefined behaviour
                \/ /\ crashed' = TRUE
                   /\ UNCHANGED nodes
                \/ /\ \E garbage \in Values :
                         nodes' = [nodes EXCEPT ![slot].val = <<garbage>>,
                                                ![slot].argVal = <<result - 1>>]
                   /\ UNCHANGED crashed
           ELSE /\ nodes' = [nodes EXCEPT
                      ![slot].val = <<ComputeResult(IsMaxNode(n), inputValues).val>>,
                      ![slot].argVal = <<ComputeResult(IsMaxNode(n), inputValues).argVal>>]
                /\ UNCHANGED crashed
    /\ UNCHANGED <<V, archive, archiveWriter, writtenKeys, readKeys, readFrom,
                   newModel, outputMap, copied>>
    /\ UNCHANGED <<compileVars, runVars>>

\* ------------------------------------------------------------------------
\* Serialization
\* ------------------------------------------------------------------------
Entry(name, value) == [name |-> name, value |-> value]

Names(a) == [k \in 1..Len(a) |-> a[k].name]

HasField(a, name) == \E k \in 1..Len(a) : a[k].name = name

Field(a, name) == a[CHOOSE k \in 1..Len(a) : a[k].name = name].value

\* Node::WriteToArchive / Node::ReadFromArchive: the fields of the base class.
NodeWriteToArchive(n) == <<Entry("id", [id |-> n.id])>>

NodeReadFromArchive(n, a) == [n EXCEPT !.id = Field(a, "id").id]

NodeFieldNames == <<"id">>

\* archiver[name] << port for an input port (its elements) and for an output
\* port (its size).
InputPortArchive(n) == [elements |-> n.input]

OutputPortArchive(size) == [size |-> size]

WrittenArchive(n) ==
    NodeWriteToArchive(n)
        \o <<Entry(inputPortName, InputPortArchive(n)),
             Entry(valPortName, OutputPortArchive(n.valSize)),
             Entry(argValPortName, OutputPortArchive(n.argValSize))>>

WriteToArchive(slot) ==
    /\ ~crashed
    /\ Exists(slot)
    /\ archive' = WrittenArchive(nodes[slot])
    /\ writtenKeys' = Names(WrittenArchive(nodes[slot]))
    /\ archiveWriter' = slot
    /\ UNCHANGED <<V, nodes, crashed, readKeys, readFrom, newModel, outputMap, copied>>
    /\ UNCHANGED <<compileVars, runVars>>

\* Variant of ReadFieldNames that reads the two output ports in the other order.
ReadFieldNamesSwapped == NodeFieldNames \o <<inputPortName, argValPortName, valPortName>>

\* The field names ReadFromArchive asks the unarchiver for, in order.
ReadFieldNames == NodeFieldNames \o <<inputPortName, valPortName, argValPortName>>

\* The node after ReadFromArchive(a), for an archive a holding every field.
ReadNode(n, a) ==
    [NodeReadFromArchive(n, a) EXCEPT
        !.input = Field(a, ReadFieldNames[2]).elements,
        !.valSize = Field(a, ReadFieldNames[3]).size,
        !.argValSize = Field(a, ReadFieldNames[4]).size]

\* ReadFromArchive of the archive a into the node in slot; a required field
\* that is absent is fatal to the load.
ReadArchiveInto(slot, a, writer) ==
    /\ readKeys' = ReadFieldNames
    /\ IF \A k \in 1..Len(ReadFieldNames) : HasField(a, ReadFieldNames[k])
       THEN /\ nodes' = [nodes EXCEPT ![slot] = ReadNode(nodes[slot], a)]
            /\ readFrom' = writer
            /\ UNCHANGED crashed
       ELSE /\ crashed' = TRUE
            /\ UNCHANGED <<nodes, readFrom>>

\* The unarchiver calls ReadFromArchive on a node it has default-constructed
\* and that has not been evaluated yet.
ReadFromArchive(slot, a, writer) ==
    /\ ~crashed
    /\ slot = "restored"
    /\ Exists(slot)
    /\ nodes[slot].val = <<>> /\ nodes[slot].argVal = <<>>
    /\ compileStatus = "none"
    /\ ReadArchiveInto(slot, a, writer)
    /\ UNCHANGED <<V, archive, archiveWriter, writtenKeys, newModel, outputMap, copied>>
    /\ UNCHANGED <<compileVars, runVars>>

\* Archives that come from outside the process (a model file): well-formed,
\* each output port recorded as a scalar or as a vector of MaxPortSize values.
ForeignArchives ==
    {WrittenArchive([NewNode(TRUE, 1, e) EXCEPT !.valSize = vs, !.argValSize = as]) :
        e \in InputElements, vs \in {1, MaxPortSize}, as \in {1, MaxPortSize}}

\* ------------------------------------------------------------------------
\* Graph copy
\* ------------------------------------------------------------------------
\* ModelTransformer::TransformPortElements: the image, in the new model, of
\* elements of the old model.
TransformPortElements(elements) ==
    IF elements.port = UpstreamPort
    THEN [elements EXCEPT !.port = "upstreamCopy"]
    ELSE elements

OutputPortOf(node, name) == [node |-> node, port |-> name]

\* ModelTransformer::AddNode<NodeType>(elements): constructs the node in the
\* new model.
AddNode(isMax, elements) ==
    Append(newModel, Constructed(isMax, Len(newModel) + 1, elements))

\* ModelTransformer::MapNodeOutput(oldPort, newPort)
MapNodeOutput(map, oldPort, newPort) == map \cup {[from |-> oldPort, to |-> newPort]}

\* Variant of ArgMinNodeCopy that adds an ArgMaxNode.
ArgMinNodeCopyAsMax(slot) ==
    LET newPortElements == TransformPortElements(nodes[slot].input)
        newNodes == AddNode(TRUE, newPortElements)
        newNode == Len(newNodes)
    IN  /\ newModel' = newNodes
        /\ outputMap' =
              MapNodeOutput(
                  MapNodeOutput(outputMap, OutputPortOf(slot, valPortName),
                                OutputPortOf(newNode, valPortName)),
                  OutputPortOf(slot, argValPortName),
                  OutputPortOf(newNode, argValPortName))

ArgMinNodeCopy(slot) ==
    LET newPortElements == TransformPortElements(nodes[slot].input)
        newNodes == AddNode(FALSE, newPortElements)
        newNode == Len(newNodes)
    IN  /\ newModel' = newNodes
        /\ outputMap' =
              MapNodeOutput(
                  MapNodeOutput(outputMap, OutputPortOf(slot, valPortName),
                                OutputPortOf(newNode, valPortName)),
                  OutputPortOf(slot, argValPortName),
                  OutputPortOf(newNode, argValPortName))

ArgMaxNodeCopy(slot) ==
    LET newPortElements == TransformPortElements(nodes[slot].input)
        newNodes == AddNode(TRUE, newPortElements)
        newNode == Len(newNodes)
    IN  /\ newModel' = newNodes
        /\ outputMap' =
              MapNodeOutput(
                  MapNodeOutput(outputMap, OutputPortOf(slot, valPortName),
                                OutputPortOf(newNode, valPortName)),
                  OutputPortOf(slot, argValPortName),
                  OutputPortOf(newNode, argValPortName))

\* Virtual dispatch of Node::Copy on the node's dynamic type.
Copy(slot) ==
    /\ ~crashed
    /\ Exists(slot)
    /\ Len(copied) < MaxCopies
    /\ IF IsMaxNode(nodes[slot]) THEN ArgMaxNodeCopy(slot) ELSE ArgMinNodeCopy(slot)
    /\ copied' = Append(copied, slot)
    /\ UNCHANGED <<V, nodes, crashed, archive, archiveWriter, writtenKeys, readKeys,
                   readFrom>>
    /\ UNCHANGED <<compileVars, runVars>>

\* ------------------------------------------------------------------------
\* Compile
\* ------------------------------------------------------------------------
\* VerifyIsScalar(port): passes for a port of size 1, throws otherwise.
VerifyIsScalar(size) == size = 1

\* IsPureVector(input): the input is one contiguous upstream buffer.
IsPureVector(elements) == elements.full

GetComparison(n) == IF IsMaxNode(n) THEN "greater" ELSE "less"

Instr(op, idx, end, cmp) == [op |-> op, idx |-> idx, end |-> end, cmp |-> cmp]

\* function.Variable x 2, Store(bestVal, element 0), StoreZero(bestIndex)
EmitPrologue ==
    <<Instr("Variable", 0, 0, "bestVal"),
      Instr("Variable", 0, 0, "bestArgVal"),
      Instr("StoreElement", 0, 0, "bestVal"),
      Instr("StoreZero", 0, 0, "bestArgVal")>>

\* Store(outVal, Load(bestVal)); Store(outArgVal, Load(bestIndex))
EmitEpilogue ==
    <<Instr("StoreOutVal", 0, 0, "bestVal"),
      Instr("StoreOutArgVal", 0, 0, "bestArgVal")>>

\* Variant of EmitLoopBody whose loop starts at element 0.
EmitLoopBodyFromZero(n, numInputs) == <<Instr("For", 0, numInputs, GetComparison(n))>>

\* function.For(1, numInputs, 1, body): one counted loop.
EmitLoopBody(n, numInputs) == <<Instr("For", 1, numInputs, GetComparison(n))>>

\* Variant of EmitExpandedBody with the bound i <= numInputs.
EmitExpandedBodyInclusive(n, numInputs) ==
    [k \in 1..numInputs |-> Instr("If", k, 0, GetComparison(n))]

\* for (i = 1; i < numInputs; ++i) function.If(...): one If per element.
EmitExpandedBody(n, numInputs) ==
    [k \in 1..(IF numInputs > 1 THEN numInputs - 1 ELSE 0) |->
        Instr("If", k, 0, GetComparison(n))]

CompileLoop(n) ==
    /\ strategy' = Append(strategy, "loop")
    /\ code' = code \o EmitPrologue \o EmitLoopBody(n, Size(n.input)) \o EmitEpilogue
    /\ compileStatus' = "ok"
    /\ pc' = 1

CompileExpanded(n) ==
    /\ strategy' = Append(strategy, "expanded")
    /\ IF Size(n.input) = 0
       THEN \* input.GetInputElement(0) of an empty input: undefined behaviour
            \/ /\ compileStatus' = "crashed"
               /\ UNCHANGED <<code, pc>>
            \/ /\ code' = code \o EmitPrologue \o EmitExpandedBody(n, Size(n.input))
                              \o EmitEpilogue
               /\ compileStatus' = "ok"
               /\ pc' = 1
       ELSE /\ code' = code \o EmitPrologue \o EmitExpandedBody(n, Size(n.input))
                            \o EmitEpilogue
            /\ compileStatus' = "ok"
            /\ pc' = 1

\* Variant of UseLoop that ignores the unrollLoops option.
UseLoopIgnoringUnroll(n) == IsPureVector(n.input)

\* The strategy selection of Compile.
UseLoop(n) == IsPureVector(n.input) /\ ~unrollLoops

\* Variant of Compile that verifies the val port only.
CompileVerifyingValOnly(slot) ==
    /\ ~crashed
    /\ Exists(slot)
    /\ compileStatus = "none"
    /\ compiled' = slot
    /\ IF ~VerifyIsScalar(nodes[slot].valSize)
       THEN /\ compileStatus' = "error"
            /\ UNCHANGED <<code, strategy, pc>>
       ELSE IF UseLoop(nodes[slot])
            THEN CompileLoop(nodes[slot])
            ELSE CompileExpanded(nodes[slot])
    /\ UNCHANGED <<graphVars, unrollLoops>>
    /\ UNCHANGED <<loopVar, bestVal, bestIndex, outVal, outArgVal, trace>>

Compile(slot) ==
    /\ ~crashed
    /\ Exists(slot)
    /\ compileStatus = "none"
    /\ compiled' = slot
    /\ IF ~VerifyIsScalar(nodes[slot].valSize) \/ ~VerifyIsScalar(nodes[slot].argValSize)
       THEN /\ compileStatus' = "error"
            /\ UNCHANGED <<code, strategy, pc>>
       ELSE IF UseLoop(nodes[slot])
            THEN CompileLoop(nodes[slot])
            ELSE CompileExpanded(nodes[slot])
    /\ UNCHANGED <<graphVars, unrollLoops>>
    /\ UNCHANGED <<loopVar, bestVal, bestIndex, outVal, outArgVal, trace>>

\* ------------------------------------------------------------------------
\* Execution of the emitted function
\* ------------------------------------------------------------------------
Running == ~crashed /\ compileStatus = "ok" /\ pc \in 1..Len(code)

Done == ~crashed /\ compileStatus = "ok" /\ pc = Len(code) + 1

\* The input buffer the emitted function reads.
InputBuffer == GetValue(nodes[compiled].input)

Event(ev, idx, stored) == [ev |-> ev, idx |-> idx, stored |-> stored]

\* Variant of Compare with the non-strict predicates.
CompareNonStrict(cmp, a, b) == IF cmp = "greater" THEN a >= b ELSE a <= b

\* emitters::GetComparison<ValueType>(greater / less)
Compare(cmp, a, b) == IF cmp = "greater" THEN a > b ELSE a < b

ExecVariable ==
    /\ Running
    /\ code[pc].op = "Variable"
    /\ IF code[pc].cmp = "bestVal"
       THEN bestVal' = <<>> /\ UNCHANGED bestIndex
       ELSE bestIndex' = <<>> /\ UNCHANGED bestVal
    /\ pc' = pc + 1
    /\ UNCHANGED <<graphVars, compileVars, loopVar, outVal, outArgVal, trace>>

\* Store(bestVal, element idx): the load of an element outside the buffer is
\* undefined behaviour.
ExecStoreElement ==
    /\ Running
    /\ code[pc].op = "StoreElement"
    /\ IF code[pc].idx < Len(InputBuffer)
       THEN /\ bestVal' = <<InputBuffer[code[pc].idx + 1]>>
            /\ pc' = pc + 1
            /\ trace' = Append(trace, Event("initVal", code[pc].idx, TRUE))
            /\ UNCHANGED crashed
       ELSE \/ /\ crashed' = TRUE
               /\ UNCHANGED <<bestVal, pc, trace>>
            \/ /\ \E garbage \in Values : bestVal' = <<garbage>>
               /\ pc' = pc + 1
               /\ trace' = Append(trace, Event("initVal", code[pc].idx, TRUE))
               /\ UNCHANGED crashed
    /\ UNCHANGED <<V, nodes, archive, archiveWriter, writtenKeys, readKeys, readFrom,
                   newModel, outputMap, copied>>
    /\ UNCHANGED <<compileVars, loopVar, bestIndex, outVal, outArgVal>>

ExecStoreZero ==
    /\ Running
    /\ code[pc].op = "StoreZero"
    /\ bestIndex' = <<0>>
    /\ pc' = pc + 1
    /\ trace' = Append(trace, Event("initIndex", 0, TRUE))
    /\ UNCHANGED <<graphVars, compileVars, loopVar, bestVal, outVal, outArgVal>>

\* Variant of CompareAndStore that stores the value and not its index.
CompareAndStoreValueOnly(cmp, i) ==
    LET val == InputBuffer[i + 1]
    IN  /\ IF Compare(cmp, val, bestVal[1])
           THEN /\ bestVal' = <<val>>
                /\ UNCHANGED bestIndex
                /\ trace' = Append(trace, Event("step", i, TRUE))
           ELSE /\ UNCHANGED <<bestVal, bestIndex>>
                /\ trace' = Append(trace, Event("step", i, FALSE))

\* The body both strategies emit for element i: load it, compare it with
\* bestVal and, when it wins, store it and its index.
CompareAndStore(cmp, i) ==
    LET val == InputBuffer[i + 1]
    IN  /\ IF Compare(cmp, val, bestVal[1])
           THEN /\ bestVal' = <<val>>
                /\ bestIndex' = <<i>>
                /\ trace' = Append(trace, Event("step", i, TRUE))
           ELSE /\ UNCHANGED <<bestVal, bestIndex>>
                /\ trace' = Append(trace, Event("step", i, FALSE))

\* One turn of the counted loop: its test and, when it passes, its body.
ExecFor ==
    /\ Running
    /\ code[pc].op = "For"
    /\ LET i == IF loopVar = 0 THEN code[pc].idx ELSE loopVar
       IN  IF i < code[pc].end
           THEN /\ CompareAndStore(code[pc].cmp, i)
                /\ loopVar' = i + 1
                /\ UNCHANGED pc
           ELSE /\ loopVar' = 0
                /\ pc' = pc + 1
                /\ UNCHANGED <<bestVal, bestIndex, trace>>
    /\ UNCHANGED <<graphVars, compileVars, outVal, outArgVal>>

ExecIf ==
    /\ Running
    /\ code[pc].op = "If"
    /\ CompareAndStore(code[pc].cmp, code[pc].idx)
    /\ pc' = pc + 1
    /\ UNCHANGED <<graphVars, compileVars, loopVar, outVal, outArgVal>>

ExecStoreOutVal ==
    /\ Running
    /\ code[pc].op = "StoreOutVal"
    /\ outVal' = bestVal
    /\ pc' = pc + 1
    /\ trace' = Append(trace, Event("outVal", 0, TRUE))
    /\ UNCHANGED <<graphVars, compileVars, loopVar, bestVal, bestIndex, outArgVal>>

ExecStoreOutArgVal ==
    /\ Running
    /\ code[pc].op = "StoreOutArgVal"
    /\ outArgVal' = bestIndex
    /\ pc' = pc + 1
    /\ trace' = Append(trace, Event("outArgVal", 0, TRUE))
    /\ UNCHANGED <<graphVars, compileVars, loopVar, bestVal, bestIndex, outVal>>

Exec ==
    \/ ExecVariable
    \/ ExecStoreElement
    \/ ExecStoreZero
    \/ ExecFor
    \/ ExecIf
    \/ ExecStoreOutVal
    \/ ExecStoreOutArgVal

\* ------------------------------------------------------------------------
\* Specifications
\* ------------------------------------------------------------------------
InitGraph ==
    /\ V \in Vectors
    /\ nodes = [s \in Slots |-> NoNode]
    /\ crashed = FALSE
    /\ archive = <<>>
    /\ archiveWriter = "none"
    /\ writtenKeys = <<>>
    /\ readKeys = <<>>
    /\ readFrom = "none"
    /\ newModel = <<>>
    /\ outputMap = {}
    /\ copied = <<>>

InitCompile ==
    /\ code = <<>>
    /\ strategy = <<>>
    /\ compileStatus = "none"
    /\ compiled = "none"

InitRun ==
    /\ pc = 0
    /\ loopVar = 0
    /\ bestVal = <<>>
    /\ bestIndex = <<>>
    /\ outVal = <<>>
    /\ outArgVal = <<>>
    /\ trace = <<>>

\* Interpreted evaluation, serialization and graph copy.
Init == InitGraph /\ InitCompile /\ InitRun /\ unrollLoops = FALSE

Construct ==
    \/ \E slot \in Slots : DefaultConstructor(slot)
    \/ \E slot \in Slots : Constructor(slot)

NextCompute ==
    \/ Construct
    \/ \E slot \in Slots : Compute(slot)

SpecCompute == Init /\ [][NextCompute]_vars

NextArchive ==
    \/ Construct
    \/ \E slot \in Slots : Compute(slot)
    \/ \E slot \in Slots : WriteToArchive(slot)
    \/ \E slot \in Slots : Len(archive) > 0 /\ ReadFromArchive(slot, archive, archiveWriter)

SpecArchive == Init /\ [][NextArchive]_vars

NextCopy ==
    \/ Construct
    \/ \E slot \in Slots : Copy(slot)

SpecCopy == Init /\ [][NextCopy]_vars

\* Code generation and the run of the emitted function, for nodes built by
\* a constructor or loaded from a model file.
InitCompiler == InitGraph /\ InitCompile /\ InitRun /\ unrollLoops \in BOOLEAN

NextCompile ==
    \/ Construct
    \/ \E slot \in Slots, a \in ForeignArchives : ReadFromArchive(slot, a, "foreign")
    \/ \E slot \in Slots : Compile(slot)
    \/ Exec

SpecCompile == InitCompiler /\ [][NextCompile]_vars

\* ------------------------------------------------------------------------
\* Properties
\* ------------------------------------------------------------------------
\* v occurs in s and no element of s is greater (max) resp. smaller (min).
IsExtremum(isMax, s, v) ==
    /\ \E k \in 1..Len(s) : s[k] = v
    /\ \A k \in 1..Len(s) : IF isMax THEN s[k] <= v ELSE s[k] >= v

\* The smallest 0-based index at which v occurs in s.
FirstIndexOf(s, v) ==
    (CHOOSE k \in 1..Len(s) : s[k] = v /\ \A j \in 1..(k - 1) : s[j] # v) - 1

\* C1: for every non-empty input vector and both variants, Compute leaves in
\* val the true maximum (minimum) of the input and in argVal the smallest
\* 0-based index at which that value occurs.
C1_ComputeIsFirstExtremum ==
    \A slot \in Slots :
        (Exists(slot) /\ Len(GetValue(nodes[slot].input)) > 0
                      /\ (nodes[slot].val # <<>> \/ nodes[slot].argVal # <<>>))
        => LET n == nodes[slot]
               s == GetValue(n.input)
           IN  /\ Len(n.val) = 1
               /\ Len(n.argVal) = 1
               /\ IsExtremum(IsMaxNode(n), s, n.val[1])
               /\ n.argVal[1] = FirstIndexOf(s, n.val[1])

C1_Witness ==
    /\ V = <<1, 0, 0>>
    /\ nodes["orig"].kind = "ArgMin"
    /\ nodes["orig"].val = <<0>>
    /\ nodes["orig"].argVal = <<1>>

NumInputs == Len(InputBuffer)

CompiledIsMax == IsMaxNode(nodes[compiled])

\* C2: for every non-empty input vector, both variants and both strategies,
\* the finished run of the emitted function leaves in the val and argVal
\* output locations the pair Compute produces for the same input, ties
\* included.
C2_CompiledEqualsCompute ==
    (Done /\ NumInputs > 0)
    => /\ outVal = <<ComputeResult(CompiledIsMax, InputBuffer).val>>
       /\ outArgVal = <<ComputeResult(CompiledIsMax, InputBuffer).argVal>>

C2_Witness ==
    /\ Done
    /\ strategy = <<"loop">>
    /\ CompiledIsMax
    /\ InputBuffer = <<1, 2, 2>>
    /\ outVal = <<2>>
    /\ outArgVal = <<1>>

\* The strategy the two booleans select.
SelectedStrategy ==
    IF IsPureVector(nodes[compiled].input) /\ ~unrollLoops THEN "loop" ELSE "expanded"

\* C3 as claimed: every Compile call runs exactly one strategy, the loop
\* strategy iff the input is a pure vector and unrollLoops is off.
C3_EveryCompileRunsOneStrategy ==
    compiled # "none" => strategy = <<SelectedStrategy>>

\* C3 as amended: a Compile call that passes the scalar checks of val and
\* argVal runs exactly one strategy, the loop strategy iff the input is a pure
\* vector and unrollLoops is off; a call that fails a check runs neither.
C3_CheckedCompileRunsOneStrategy ==
    /\ (compiled # "none" /\ compileStatus # "error") => strategy = <<SelectedStrategy>>
    /\ (compiled = "none" \/ compileStatus = "error") => strategy = <<>>

C3_Witness ==
    /\ compileStatus = "ok"
    /\ IsPureVector(nodes[compiled].input)
    /\ unrollLoops
    /\ strategy = <<"expanded">>

\* C4: no node with a zero-size input ever exists.
C4_NoZeroSizeInput ==
    \A slot \in Slots : Exists(slot) => Size(nodes[slot].input) > 0

\* C5: a Compile call on a node whose val or argVal port is not of size 1
\* fails, and it fails before anything is emitted: the builder holds no
\* instruction of the node and neither strategy was entered.
C5_ShapeCheckBeforeEmission ==
    (compiled # "none"
        /\ (nodes[compiled].valSize # 1 \/ nodes[compiled].argValSize # 1))
    => /\ compileStatus = "error"
       /\ code = <<>>
       /\ strategy = <<>>
       /\ pc = 0

C5_Witness ==
    /\ compileStatus = "error"
    /\ nodes[compiled].valSize = 1
    /\ nodes[compiled].argValSize # 1
    /\ code = <<>>

StepEvents == {k \in 1..Len(trace) : trace[k].ev = "step"}

\* C6: for a singleton input [x], Compute and both strategies yield value x
\* and index 0; the loop body runs zero times and the expanded strategy emits
\* no compare-and-store sequence.
C6_Singleton ==
    (compileStatus = "ok" /\ NumInputs = 1)
    => /\ ComputeResult(CompiledIsMax, InputBuffer) = [val |-> InputBuffer[1], argVal |-> 0]
       /\ StepEvents = {}
       /\ strategy = <<"expanded">> => \A k \in 1..Len(code) : code[k].op # "If"
       /\ strategy = <<"loop">> =>
             Cardinality({k \in 1..Len(code) : code[k].op = "For"}) = 1
       /\ Done => (outVal = <<InputBuffer[1]>> /\ outArgVal = <<0>>)

C6_Witness ==
    /\ Done
    /\ NumInputs = 1
    /\ strategy = <<"loop">>
    /\ InputBuffer = <<2>>
    /\ outVal = <<2>>
    /\ outArgVal = <<0>>

\* The output-port mappings Copy of the node in slot registers for the k-th
\* node of the new model.
ExpectedMappings(slot, k) ==
    {[from |-> OutputPortOf(slot, valPortName), to |-> OutputPortOf(k, valPortName)],
     [from |-> OutputPortOf(slot, argValPortName), to |-> OutputPortOf(k, argValPortName)]}

C7_CopiesMatch ==
    /\ Len(newModel) = Len(copied)
    /\ \A k \in 1..Len(copied) :
          /\ newModel[k].kind = nodes[copied[k]].kind
          /\ newModel[k].input = TransformPortElements(nodes[copied[k]].input)
    /\ outputMap = UNION {ExpectedMappings(copied[k], k) : k \in 1..Len(copied)}

\* C7: Copy adds exactly one node, of the variant of the original and bound to
\* the transformer's image of the original's input elements, maps val to val
\* and argVal to argVal and nothing else, and leaves the original unchanged.
C7_CopyPreservesVariantAndPorts ==
    /\ []C7_CopiesMatch
    /\ [][copied' # copied =>
             (nodes' = nodes /\ Len(newModel') = Len(newModel) + 1)]_vars

C7_Witness ==
    /\ copied = <<"orig", "restored">>
    /\ nodes["orig"].kind = "ArgMin"
    /\ nodes["restored"].kind = "ArgMax"
    /\ newModel[1].kind = "ArgMin"
    /\ newModel[1].input = [port |-> "upstreamCopy", full |-> TRUE]
    /\ newModel[2].kind = "ArgMax"

\* C8: WriteToArchive and ReadFromArchive use the same field names in the same
\* order (base-node fields, input, val, argVal), and a node read from the
\* archive the original wrote has the original's input linkage and output
\* ports; if it is of the same variant its Compute gives the original's pair.
C8_ArchiveRoundTrip ==
    /\ writtenKeys # <<>> =>
          writtenKeys = NodeFieldNames \o <<inputPortName, valPortName, argValPortName>>
    /\ readKeys # <<>> => readKeys = writtenKeys
    /\ readFrom = "orig" =>
          LET o == nodes["orig"]
              r == nodes["restored"]
          IN  /\ r.id = o.id
              /\ r.input = o.input
              /\ r.valSize = o.valSize
              /\ r.argValSize = o.argValSize
              /\ (r.kind = o.kind /\ Len(GetValue(o.input)) > 0
                    /\ o.val # <<>> /\ r.val # <<>>)
                 => (r.val = o.val /\ r.argVal = o.argVal)

C8_Witness ==
    /\ readFrom = "orig"
    /\ readKeys = <<"id", "input", "val", "argVal">>
    /\ nodes["orig"].kind = "ArgMax"
    /\ nodes["restored"].kind = "ArgMax"
    /\ V = <<0, 2, 1>>
    /\ nodes["orig"].input.port = UpstreamPort
    /\ nodes["orig"].argVal = <<1>>
    /\ nodes["restored"].val = <<2>>
    /\ nodes["restored"].argVal = <<1>>

\* The number of compare-and-store steps of a run over the compiled input.
StepCount == IF NumInputs > 0 THEN NumInputs - 1 ELSE 0

ExpectedEvent(k) ==
    IF k = 1 THEN "initVal"
    ELSE IF k = 2 THEN "initIndex"
    ELSE IF k <= StepCount + 2 THEN "step"
    ELSE IF k = StepCount + 3 THEN "outVal"
    ELSE "outArgVal"

ExpectedIndex(k) == IF 2 < k /\ k <= StepCount + 2 THEN k - 2 ELSE 0

\* C9: in a run of either strategy bestVal is initialised from element 0 and
\* bestIndex to 0 before any comparison; then the N-1 compare-and-store steps
\* run for i = 1..N-1 in ascending order, step i storing element i and index i
\* when it wins; only then val and argVal are written, each exactly once, with
\* the final bestVal and bestIndex.
C9_RunOrder ==
    compileStatus = "ok"
    => /\ Len(trace) <= StepCount + 4
       /\ \A k \in 1..Len(trace) :
             /\ trace[k].ev = ExpectedEvent(k)
             /\ trace[k].idx = ExpectedIndex(k)
       /\ (Len(trace) > 0 /\ trace[Len(trace)].ev = "step" /\ trace[Len(trace)].stored)
             => /\ bestIndex = <<trace[Len(trace)].idx>>
                /\ bestVal = <<InputBuffer[trace[Len(trace)].idx + 1]>>
       /\ outVal # <<>> <=> Len(trace) >= StepCount + 3
       /\ outArgVal # <<>> <=> Len(trace) = StepCount + 4
       /\ Done => (Len(trace) = StepCount + 4 /\ outVal = bestVal /\ outArgVal = bestIndex)

C9_Witness ==
    /\ Done
    /\ strategy = <<"expanded">>
    /\ NumInputs = 3
    /\ Len(trace) = 6
    /\ trace[3].stored
    /\ trace[4].stored
    /\ outArgVal = <<2>>

Initialised == bestVal # <<>> /\ bestIndex # <<>>

C10_ScanInvariant ==
    (compileStatus = "ok" /\ NumInputs > 0 /\ Initialised)
    => LET i == Cardinality(StepEvents)
           b == bestIndex[1]
       IN  /\ b \in 0..i
           /\ bestVal[1] = InputBuffer[b + 1]
           /\ \A k \in 0..i :
                 IF CompiledIsMax THEN InputBuffer[k + 1] <= bestVal[1]
                                  ELSE InputBuffer[k + 1] >= bestVal[1]
           /\ \A k \in 0..(b - 1) : InputBuffer[k + 1] # bestVal[1]

\* C10: once bestVal and bestIndex are initialised, and after every completed
\* compare-and-store step i, bestIndex is in 0..i, bestVal is element
\* bestIndex, it is the maximum (minimum) of elements 0..i and bestIndex is the
\* smallest index holding it; a step changes bestVal and bestIndex together or
\* not at all, and bestIndex never decreases.
C10_ScanInvariantAndSteps ==
    /\ []C10_ScanInvariant
    /\ [][(Initialised /\ Initialised') =>
             /\ (bestVal' # bestVal) <=> (bestIndex' # bestIndex)
             /\ bestIndex'[1] >= bestIndex[1]]_vars

C10_Witness ==
    /\ compileStatus = "ok"
    /\ ~CompiledIsMax
    /\ InputBuffer = <<2, 1, 1>>
    /\ Cardinality(StepEvents) = 2
    /\ bestVal = <<1>>
    /\ bestIndex = <<1>>

====
